---- MODULE Spec2Model ----
(***************************************************************************)
(* Royal Restaurant API (src/main.py): the JSON store, the admin routes,   *)
(* and the order / payment flow, as a state machine.                       *)
(*                                                                         *)
(* Every handler is an `async def`: it runs without interruption until it  *)
(* awaits a network call, so a handler is cut into one step per stretch of *)
(* code between two awaits that suspend.  The admin routes do not await    *)
(* anything that suspends between load_data and save_data: each is one     *)
(* step.  create_order and payment_success load the document, await the    *)
(* payment provider and write the document they loaded before the await.   *)
(* The two awaits of create_payment and of capture_payment (the token, then *)
(* the request itself) have nothing of the program's state read or written  *)
(* between them: the provider's answers to both are one step.               *)
(*                                                                         *)
(* Money: floats are modelled as exact decimals in fixed point.  A catalog *)
(* price is held in tenths of OMR, an OMR amount of an order in            *)
(* thousandths (price * (100 - discount)), a USD amount in                 *)
(* ten-thousandths (OMR amount * 26).                                      *)
(***************************************************************************)
EXTENDS Integers, Sequences, FiniteSets, TLC

(* ------------------------------ bounds -------------------------------- *)
\* requests handled in one run
MaxRequests == 3
\* the largest reading of datetime.now(), in milliseconds
MaxClock == 2

\* requests in flight at the same time
Procs == {1, 2}

(* -------------------------- configuration ----------------------------- *)
ADMIN_TOKEN == "mamad1390"
\* OMR_TO_USD_RATE = 2.6, in tenths
OMR_TO_USD_RATE == 26

(* ------------------------------ inputs -------------------------------- *)
\* X-Admin-Token header values (the second stands for any other value, or none)
AdminTokens == {ADMIN_TOKEN, "guess"}

\* the product seed_data writes: price 15.5, discount 10
SeedProduct == [id |-> "1", name |-> "Filet Mignon Steak", price |-> 155, discount |-> 10]
SeedCategories == << [id |-> "1", name |-> "Appetizers"], [id |-> "2", name |-> "Main Course"] >>

\* bodies of POST /api/admin/product: discount is any int
ProductInputs ==
    { [id |-> "1", name |-> "Steak", price |-> 100, discount |-> 10],
      [id |-> "2", name |-> "Soup", price |-> 35, discount |-> 0],
      [id |-> "2", name |-> "Soup", price |-> 35, discount |-> 150] }
ProductIds == {"1"}

\* bodies of POST /api/admin/category
CategoryInputs == { [id |-> "3", name |-> "Drinks"] }
CategoryIds == {"3"}

\* carts of POST /api/order/create; product "2" is not in the seeded catalog,
\* and either product may have been deleted when the cart is priced
Carts ==
    { << >>,
      << [id |-> "2", quantity |-> 1], [id |-> "1", quantity |-> 2] >> }

\* status values of POST /api/admin/order-status
StatusInputs == {"confirmed", "preparing"}

\* what a write of data.json does: it succeeds, open() fails, or the write
\* fails after open() has truncated the file
IoOutcomes == {"ok", "open_fails", "write_fails"}

EmptyDoc == [products |-> << >>, categories |-> << >>, orders |-> << >>]

\* uploads of POST /api/admin/restore: json says whether the bytes parse
RestoreInputs ==
    { [json |-> TRUE, doc |-> EmptyDoc],
      [json |-> TRUE, doc |-> [products |-> << SeedProduct >>, categories |-> << >>]],
      [json |-> TRUE, doc |-> [products |-> << >>, orders |-> << >>]],
      [json |-> TRUE, doc |-> [categories |-> << >>, orders |-> << >>]],
      [json |-> FALSE, doc |-> EmptyDoc] }

(* ------------------------------- state -------------------------------- *)
VARIABLES
    file,       \* data.json as a document: a record with some of the three keys
    fileOk,     \* FALSE: data.json is not valid JSON
    clock,      \* the last reading of datetime.now().timestamp() * 1000
    creds,      \* PAYPAL_CLIENT_ID and PAYPAL_SECRET are both set
    telegram,   \* TELEGRAM_BOT_TOKEN and TELEGRAM_CHAT_ID are both set
    sessions,   \* the provider's checkout orders: session id -> state
    req,        \* the requests in flight: where each is, and its locals
    last,       \* the request that completed last, and its response
    nreq        \* requests started

vars == << file, fileOk, clock, creds, telegram, sessions, req, last, nreq >>

Idle == [pc |-> "idle"]

(* ---------------------------- DataManager ----------------------------- *)
\* the document ensure_data_file and seed_data leave on the first run
SeededDoc ==
    [products |-> << SeedProduct >>, categories |-> SeedCategories, orders |-> << >>]

\* a file that does not parse reads as the empty document
load_data == IF fileOk THEN file ELSE EmptyDoc

\* save_data never raises: a failure is logged and the caller goes on
save_data(data, io) ==
    /\ file' = CASE io = "ok" -> data
                 [] io = "open_fails" -> file
                 [] OTHER -> EmptyDoc
    /\ fileOk' = CASE io = "ok" -> TRUE
                   [] io = "open_fails" -> fileOk
                   [] OTHER -> FALSE

\* a write of data.json that ends as one of ios
Save(data, ios) == \E io \in ios : save_data(data, io)

NoSave == UNCHANGED << file, fileOk >>

(* ------------------------------ security ------------------------------ *)
\* a check that lets every token through
verify_admin_any(x_admin_token) == TRUE

verify_admin(x_admin_token) == x_admin_token = ADMIN_TOKEN

(* ------------------------------ helpers ------------------------------- *)
\* a lookup that falls back on the first element when no element has the id
IndexOf_or_first(seq, id) ==
    IF \E i \in 1..Len(seq) : seq[i].id = id
    THEN CHOOSE i \in 1..Len(seq) :
             /\ seq[i].id = id
             /\ \A j \in 1..(i - 1) : seq[j].id # id
    ELSE IF seq = << >> THEN 0 ELSE 1

\* next((i for i, x in enumerate(seq) if x["id"] == id), None), 0 for None
IndexOf(seq, id) ==
    IF \E i \in 1..Len(seq) : seq[i].id = id
    THEN CHOOSE i \in 1..Len(seq) :
             /\ seq[i].id = id
             /\ \A j \in 1..(i - 1) : seq[j].id # id
    ELSE 0

\* [x for x in seq if x["id"] != id]
RECURSIVE WithoutId(_, _)
WithoutId(seq, id) ==
    IF seq = << >> THEN << >>
    ELSE IF Head(seq).id = id THEN WithoutId(Tail(seq), id)
         ELSE << Head(seq) >> \o WithoutId(Tail(seq), id)

\* an upsert that appends without looking for the id
Upsert_append(seq, x) == Append(seq, x)

\* replace the first element with this id, or append
Upsert(seq, x) ==
    LET existing == IndexOf(seq, x.id)
    IN IF existing # 0 THEN [seq EXCEPT ![existing] = x] ELSE Append(seq, x)

HasOrders(data) == "orders" \in DOMAIN data

\* the slot a new request is handled in: the first that is free
FreeSlot(p) ==
    /\ req[p].pc = "idle"
    /\ \A q \in Procs : q < p => req[q].pc # "idle"

\* a request arrives
Begin == /\ nreq < MaxRequests
         /\ nreq' = nreq + 1

\* a request that was not suspended returns resp
Complete(op, resp) == last' = [op |-> op, resp |-> resp]

Init ==
    /\ file = SeededDoc
    /\ fileOk = TRUE
    /\ clock = 1
    /\ creds \in BOOLEAN
    /\ telegram \in BOOLEAN
    /\ sessions = << >>
    /\ req = [p \in Procs |-> Idle]
    /\ last = [op |-> "none", resp |-> "none"]
    /\ nreq = 0

(* ---------------------------- admin routes ---------------------------- *)
\* GET /api/admin/full-data: the whole document, to the admin only
get_admin_data(x_admin_token) ==
    /\ Begin
    /\ IF ~verify_admin(x_admin_token)
       THEN Complete("verify_admin", "403")
       ELSE Complete("get_admin_data", "document")
    /\ UNCHANGED << file, fileOk, clock, creds, telegram, sessions, req >>

\* GET /api/admin/backup?token=...: the route compares the token itself
download_backup(token) ==
    /\ Begin
    /\ IF token # ADMIN_TOKEN
       THEN Complete("download_backup", "403")
       ELSE Complete("download_backup", "backup.json")
    /\ UNCHANGED << file, fileOk, clock, creds, telegram, sessions, req >>

save_product(x_admin_token, product, ios) ==
    /\ Begin
    /\ IF ~verify_admin(x_admin_token)
       THEN NoSave /\ Complete("verify_admin", "403")
       ELSE LET data == load_data
            IN /\ Save([data EXCEPT !.products = Upsert(data.products, product)], ios)
               /\ Complete("save_product", "success")
    /\ UNCHANGED << clock, creds, telegram, sessions, req >>

delete_product(x_admin_token, pid, ios) ==
    /\ Begin
    /\ IF ~verify_admin(x_admin_token)
       THEN NoSave /\ Complete("verify_admin", "403")
       ELSE LET data == load_data
            IN /\ Save([data EXCEPT !.products = WithoutId(data.products, pid)], ios)
               /\ Complete("delete_product", "success")
    /\ UNCHANGED << clock, creds, telegram, sessions, req >>

save_category(x_admin_token, category, ios) ==
    /\ Begin
    /\ IF ~verify_admin(x_admin_token)
       THEN NoSave /\ Complete("verify_admin", "403")
       ELSE LET data == load_data
            IN /\ Save([data EXCEPT !.categories = Upsert(data.categories, category)], ios)
               /\ Complete("save_category", "success")
    /\ UNCHANGED << clock, creds, telegram, sessions, req >>

delete_category(x_admin_token, cid, ios) ==
    /\ Begin
    /\ IF ~verify_admin(x_admin_token)
       THEN NoSave /\ Complete("verify_admin", "403")
       ELSE LET data == load_data
            IN /\ Save([data EXCEPT !.categories = WithoutId(data.categories, cid)], ios)
               /\ Complete("delete_category", "success")
    /\ UNCHANGED << clock, creds, telegram, sessions, req >>

\* data["orders"] raises KeyError when the document has no such key: a 500
update_order_status(x_admin_token, order_id, status, ios) ==
    /\ Begin
    /\ IF ~verify_admin(x_admin_token)
       THEN NoSave /\ Complete("verify_admin", "403")
       ELSE LET data == load_data
            IN IF ~HasOrders(data)
               THEN NoSave /\ Complete("update_order_status", "500")
               ELSE LET i == IndexOf(data.orders, order_id)
                    IN IF i = 0
                       THEN NoSave /\ Complete("update_order_status", "404")
                       ELSE /\ Save([data EXCEPT !.orders[i].status = status], ios)
                            /\ Complete("update_order_status", "success")
    /\ UNCHANGED << clock, creds, telegram, sessions, req >>

\* the upload is accepted when it parses and has the keys the route looks for
RestoreAccepts(upload) ==
    /\ upload.json
    /\ "products" \in DOMAIN upload.doc
    /\ "categories" \in DOMAIN upload.doc

restore_backup(x_admin_token, upload, ios) ==
    /\ Begin
    /\ IF ~verify_admin(x_admin_token)
       THEN NoSave /\ Complete("verify_admin", "403")
       ELSE IF RestoreAccepts(upload)
            THEN /\ Save(upload.doc, ios)
                 /\ Complete("restore_backup", "success")
            ELSE NoSave /\ Complete("restore_backup", "400")
    /\ UNCHANGED << clock, creds, telegram, sessions, req >>

(* ------------------------------ pricing ------------------------------- *)
\* the discount under an integer division: discount / 100 is 0 below 100
final_price_floor_division(prod) == prod.price * (100 - (prod.discount \div 100) * 100)

\* prod["price"] * (1 - prod["discount"] / 100), in thousandths of OMR
final_price(prod) == prod.price * (100 - prod.discount)

\* the loop of create_order over order_req.items: items of no product are skipped
RECURSIVE PriceLoop(_, _, _, _)
PriceLoop(products, items, calculated_total, full_items) ==
    IF items = << >>
    THEN [calculated_total |-> calculated_total, full_items |-> full_items]
    ELSE LET item == Head(items)
             i == IndexOf(products, item.id)
         IN IF i # 0
            THEN PriceLoop(products, Tail(items),
                           calculated_total + final_price(products[i]) * item.quantity,
                           Append(full_items,
                                  [id |-> products[i].id, name |-> products[i].name,
                                   price |-> final_price(products[i]),
                                   quantity |-> item.quantity]))
            ELSE PriceLoop(products, Tail(items), calculated_total, full_items)

\* calculated_total * OMR_TO_USD_RATE, in ten-thousandths of USD
total_usd(calculated_total) == calculated_total * OMR_TO_USD_RATE

(* --------------------------- PayPalService ---------------------------- *)
\* get_access_token without credentials returns None at once, and the caller
\* goes on to its own request; with credentials it awaits the provider's token
AfterTokenCall(auth, post) == IF creds THEN auth ELSE post
TokenWithoutCall == IF creds THEN "pending" ELSE "None"

\* the token request is refused: get_access_token raises
TokenRefused(r, answer) == r.awaiting = "oauth2/token" /\ answer = "token_refused"
\* the bearer credential of the request that follows the token request
Bearer(r) == IF r.awaiting = "oauth2/token" THEN "access_token" ELSE r.bearer

\* the provider serves a request only under a bearer credential it issued
ProviderAccepts(bearer) == bearer = "access_token"

\* a capture_payment that does not look at the status of the answer
raise_for_status_unchecked(ok) == FALSE

\* response.raise_for_status(): raises unless the provider answered 2xx
raise_for_status(ok) == ~ok

\* capture: the session must exist and not be captured yet; whether the customer
\* has approved it by then is part of the provider's answer
Capturable(bearer, token) ==
    /\ ProviderAccepts(bearer)
    /\ token \in 1..Len(sessions)
    /\ sessions[token] = "created"

(* --------------------------- order creation --------------------------- *)
new_order(r, paypal_order_id) ==
    [id |-> r.order_id, items |-> r.full_items, total_omr |-> r.calculated_total,
     total_usd |-> r.total_usd, status |-> "pending_payment", paid |-> FALSE,
     paypal_order_id |-> paypal_order_id]

\* create_order up to the first await of create_payment
create_order(p, items, now) ==
    /\ Begin
    /\ FreeSlot(p)
    /\ clock' = now
    /\ LET data == load_data
           priced == PriceLoop(data.products, items, 0, << >>)
       IN req' = [req EXCEPT ![p] =
                     [pc |-> "co_paypal",
                      awaiting |-> AfterTokenCall("oauth2/token", "checkout/orders"),
                      data |-> data,
                      items |-> items,
                      full_items |-> priced.full_items,
                      calculated_total |-> priced.calculated_total,
                      total_usd |-> total_usd(priced.calculated_total),
                      order_id |-> now,
                      bearer |-> TokenWithoutCall]]
    /\ UNCHANGED << file, fileOk, creds, telegram, sessions, last >>

\* the provider answers create_payment; create_order runs to its end.
\* An answer that is no checkout order has no "links": a KeyError, caught as any
\* other error.  So is the KeyError of data["orders"].
create_order_done(p, answer, ios) ==
    /\ req[p].pc = "co_paypal"
    /\ LET r == req[p]
           created ==
               ~TokenRefused(r, answer) /\ answer = "created" /\ ProviderAccepts(Bearer(r))
           paypal_order_id == Len(sessions) + 1
       IN /\ sessions' = IF created THEN Append(sessions, "created") ELSE sessions
          /\ IF raise_for_status(created) \/ ~created \/ ~HasOrders(r.data)
             THEN NoSave /\ Complete("create_order", "500")
             ELSE /\ Save([r.data EXCEPT !.orders =
                              Append(@, new_order(r, paypal_order_id))], ios)
                  /\ Complete("create_order", "approval_url")
    /\ req' = [req EXCEPT ![p] = Idle]
    /\ UNCHANGED << clock, creds, telegram, nreq >>

(* ------------------------------ finalize ------------------------------ *)
\* payment_success up to the first await of capture_payment
payment_success(p, oid, token) ==
    /\ Begin
    /\ FreeSlot(p)
    /\ LET data == load_data
       IN IF ~HasOrders(data)
          THEN UNCHANGED req /\ Complete("payment_success", "500")
          ELSE LET order_idx == IndexOf(data.orders, oid)
               IN IF order_idx = 0
                  THEN UNCHANGED req /\ Complete("payment_success", "order_not_found")
                  ELSE /\ req' = [req EXCEPT ![p] =
                                     [pc |-> "ps_paypal",
                                      awaiting |-> AfterTokenCall("oauth2/token", "capture"),
                                      data |-> data, oid |-> oid, token |-> token,
                                      order_idx |-> order_idx,
                                      bearer |-> TokenWithoutCall]]
                       /\ UNCHANGED last
    /\ UNCHANGED << file, fileOk, clock, creds, telegram, sessions >>

confirmed(order) == [order EXCEPT !.status = "confirmed", !.paid = TRUE]

\* the provider answers capture_payment; payment_success runs to send_order's await,
\* or to its end when send_order returns at once
payment_success_captured(p, answer, ios) ==
    /\ req[p].pc = "ps_paypal"
    /\ LET r == req[p]
           captured ==
               ~TokenRefused(r, answer) /\ answer = "captured"
                   /\ Capturable(Bearer(r), r.token)
       IN /\ sessions' = IF captured THEN [sessions EXCEPT ![r.token] = "captured"]
                         ELSE sessions
          /\ IF raise_for_status(captured)
             THEN /\ NoSave
                  /\ req' = [req EXCEPT ![p] = Idle]
                  /\ Complete("payment_success", "payment_failed")
             ELSE /\ Save([r.data EXCEPT !.orders[r.order_idx] = confirmed(@)], ios)
                  /\ IF telegram
                     THEN /\ req' = [req EXCEPT ![p] = [pc |-> "ps_notify", oid |-> r.oid]]
                          /\ UNCHANGED last
                     ELSE /\ req' = [req EXCEPT ![p] = Idle]
                          /\ Complete("payment_success", "success")
    /\ UNCHANGED << clock, creds, telegram, nreq >>

\* a payment_success whose outer handler catches the error of the notification
AfterNotification_caught_outside(delivered) ==
    IF delivered THEN "success" ELSE "payment_failed"

\* what payment_success answers after send_order: an error of send_order is
\* logged there or in payment_success, never raised further
AfterNotification(delivered) == "success"

\* the messaging webhook answers, or the post fails
payment_success_notified(p, delivered) ==
    /\ req[p].pc = "ps_notify"
    /\ req' = [req EXCEPT ![p] = Idle]
    /\ Complete("payment_success", AfterNotification(delivered))
    /\ UNCHANGED << file, fileOk, clock, creds, telegram, sessions, nreq >>

payment_cancel ==
    /\ Begin
    /\ Complete("payment_cancel", "payment_cancelled")
    /\ UNCHANGED << file, fileOk, clock, creds, telegram, sessions, req >>

(* --------------------------- specifications --------------------------- *)
\* readings of the clock by a request: time does not go back
Readings == {t \in {clock, clock + 1} : t <= MaxClock}
OrderIds == 0..MaxClock
Tokens == 0..Len(sessions)

\* the admin routes, a write of data.json ending as one of ios
AdminStep(ios) ==
    \/ \E t \in AdminTokens : get_admin_data(t)
    \/ \E t \in AdminTokens : download_backup(t)
    \/ \E t \in AdminTokens, product \in ProductInputs :
           save_product(t, product, ios)
    \/ \E t \in AdminTokens, pid \in ProductIds :
           delete_product(t, pid, ios)
    \/ \E t \in AdminTokens, category \in CategoryInputs :
           save_category(t, category, ios)
    \/ \E t \in AdminTokens, cid \in CategoryIds :
           delete_category(t, cid, ios)
    \/ \E t \in AdminTokens, oid \in OrderIds, status \in StatusInputs :
           update_order_status(t, oid, status, ios)

\* the order and payment flow, with the answers of the provider
OrderStep(ios) ==
    \/ \E p \in Procs, items \in Carts, now \in Readings : create_order(p, items, now)
    \/ \E p \in Procs, answer \in {"token_refused", "rejected", "created"} :
           create_order_done(p, answer, ios)
    \/ \E p \in Procs, oid \in OrderIds, token \in Tokens : payment_success(p, oid, token)
    \/ \E p \in Procs, answer \in {"token_refused", "error", "captured"} :
           payment_success_captured(p, answer, ios)
    \/ \E p \in Procs, delivered \in BOOLEAN : payment_success_notified(p, delivered)
    \/ payment_cancel

RestoreStep(ios) ==
    \E t \in AdminTokens, upload \in RestoreInputs :
        restore_backup(t, upload, ios)

\* every route, on a disk whose writes may fail
Next == AdminStep(IoOutcomes) \/ OrderStep(IoOutcomes) \/ RestoreStep(IoOutcomes)
Spec == Init /\ [][Next]_vars

\* every route, on a disk whose writes succeed
NextReliable == AdminStep({"ok"}) \/ OrderStep({"ok"}) \/ RestoreStep({"ok"})
SpecReliable == Init /\ [][NextReliable]_vars

\* the normal flow: no backup is restored, and writes succeed
NextNormal == AdminStep({"ok"}) \/ OrderStep({"ok"})
SpecNormal == Init /\ [][NextNormal]_vars

(* ------------------------------ claims -------------------------------- *)
\* the order with this id that the store holds, if any
StoredOrders(doc, ok) == IF ok /\ HasOrders(doc) THEN doc.orders ELSE << >>
OrderInStore(id) ==
    \E i \in 1..Len(StoredOrders(file, fileOk)) : StoredOrders(file, fileOk)[i].id = id

\* a create_order request returns in this step
CreateReturns(p) == req[p].pc = "co_paypal" /\ req'[p].pc = "idle"
\* the provider has opened a checkout session in this step
SessionCreated == Len(sessions') = Len(sessions) + 1
\* the store holds one order more than the request loaded: its own, pending and unpaid
HoldsNewOrder(p) ==
    LET orders == StoredOrders(file', fileOk')
    IN /\ HasOrders(req[p].data)
       /\ Len(orders) = Len(req[p].data.orders) + 1
       /\ orders[Len(orders)].id = req[p].order_id
       /\ orders[Len(orders)].status = "pending_payment"
       /\ orders[Len(orders)].paid = FALSE
       /\ orders[Len(orders)].paypal_order_id = Len(sessions')

\* C1: when a create_order request returns, the store holds its new order
\* (pending_payment, unpaid, with the session id) if the provider created the
\* session for it, and the store is as it was if the provider did not.
C1_PersistedIffSessionCreated ==
    [][\A p \in Procs :
          CreateReturns(p) =>
              IF SessionCreated THEN HoldsNewOrder(p)
              ELSE file' = file /\ fileOk' = fileOk]_vars

\* the order a finalize request in flight has looked up
LoadedOrder(p) == req[p].data.orders[req[p].order_idx]

\* C2: no finalize request is in capture_payment for an order that it found
\* confirmed and paid when it looked the order up.
C2_NoCaptureOfConfirmedOrder ==
    \A p \in Procs :
        req[p].pc = "ps_paypal" =>
            ~(LoadedOrder(p).status = "confirmed" /\ LoadedOrder(p).paid)

\* a payment_success request returns its success redirect in this step
FinalizeSucceeds(p) ==
    /\ req[p].pc \in {"ps_paypal", "ps_notify"}
    /\ req'[p].pc = "idle"
    /\ last'.op = "payment_success"
    /\ last'.resp = "success"

\* C3: when payment_success returns its success redirect, the store holds the
\* order of the request as paid (the flag that only payment_success writes; the
\* status beside it is also written by the admin's order-status override).
C3_StoreHoldsPaidOrderAtReturn ==
    [][\A p \in Procs :
          FinalizeSucceeds(p) =>
              \E i \in 1..Len(StoredOrders(file', fileOk')) :
                  LET o == StoredOrders(file', fileOk')[i]
                  IN o.id = req[p].oid /\ o.paid]_vars

\* a payment_success request leaves capture_payment in this step
CaptureReturns(p) == req[p].pc = "ps_paypal" /\ req'[p].pc # "ps_paypal"

\* C4: when the capture of a finalize request fails (the provider captures no
\* session), the request writes nothing to the store and returns the
\* payment-failed redirect.
C4_CaptureFailureLeavesOrder ==
    [][\A p \in Procs :
          (CaptureReturns(p) /\ sessions' = sessions) =>
              /\ file' = file
              /\ fileOk' = fileOk
              /\ req'[p].pc = "idle"
              /\ last' = [op |-> "payment_success", resp |-> "payment_failed"]]_vars

\* a finalize request has just failed at the capture, and the order it was for is
\* in the store, pending and unpaid
C4_Witness ==
    /\ last = [op |-> "payment_success", resp |-> "payment_failed"]
    /\ \E i \in 1..Len(StoredOrders(file, fileOk)) :
           /\ StoredOrders(file, fileOk)[i].status = "pending_payment"
           /\ ~StoredOrders(file, fileOk)[i].paid

\* C5: a finalize request for an order id that the store does not hold returns
\* the not-found redirect, sends nothing to the provider and leaves the store as
\* it was.
C5_UnknownOrderNotFound ==
    [][\A p \in Procs, oid \in OrderIds, token \in Tokens :
          (payment_success(p, oid, token) /\ ~OrderInStore(oid)) =>
              /\ last' = [op |-> "payment_success", resp |-> "order_not_found"]
              /\ req'[p].pc = "idle"
              /\ file' = file
              /\ fileOk' = fileOk]_vars

\* the notification of a finalize request ends in this step
NotificationReturns(p) == req[p].pc = "ps_notify" /\ req'[p].pc # "ps_notify"
\* the provider has captured the session of a finalize request in this step
CaptureSucceeds(p) ==
    req[p].pc = "ps_paypal" /\ req'[p].pc # "ps_paypal" /\ sessions' # sessions

\* C6: a finalize request whose capture succeeded returns the success redirect
\* whether the notification is delivered, fails or is not configured, and the
\* notification writes nothing to the store.
C6_NotificationNeverChangesOutcome ==
    [][\A p \in Procs :
          /\ NotificationReturns(p) =>
                 /\ req'[p].pc = "idle"
                 /\ last' = [op |-> "payment_success", resp |-> "success"]
                 /\ file' = file
                 /\ fileOk' = fileOk
          /\ CaptureSucceeds(p) =>
                 IF telegram
                 THEN req'[p].pc = "ps_notify"
                 ELSE /\ req'[p].pc = "idle"
                      /\ last' = [op |-> "payment_success", resp |-> "success"]]_vars

\* a finalize request has returned success after its notification, and the store
\* holds a paid order
C6_Witness ==
    /\ telegram
    /\ last = [op |-> "payment_success", resp |-> "success"]
    /\ \A p \in Procs : req[p].pc = "idle"
    /\ \E i \in 1..Len(StoredOrders(file, fileOk)) : StoredOrders(file, fileOk)[i].paid

\* the upload parses and has the three collections
HasAllCollections(upload) ==
    upload.json /\ {"products", "categories", "orders"} \subseteq DOMAIN upload.doc

\* C7: a restore by the admin of an upload that lacks one of products,
\* categories and orders answers 400 and leaves the store as it was.
C7_RestoreNeedsAllCollections ==
    [][\A upload \in RestoreInputs :
          (restore_backup(ADMIN_TOKEN, upload, {"ok"}) /\ ~HasAllCollections(upload)) =>
              /\ last' = [op |-> "restore_backup", resp |-> "400"]
              /\ file' = file
              /\ fileOk' = fileOk]_vars

\* C8: no checkout or capture request is in flight to the provider without a
\* credential (get_access_token returned None).
C8_NoRequestWithoutCredentials ==
    \A p \in Procs :
        (req[p].pc \in {"co_paypal", "ps_paypal"} /\ req[p].bearer = "None") =>
            req[p].awaiting \notin {"checkout/orders", "capture"}

\* C9: an order that the store holds is in the store after every step.
C9_OrdersNeverRemoved ==
    [][\A id \in 1..MaxClock : OrderInStore(id) => OrderInStore(id)']_vars

\* the product of the catalog with this id (ids of a catalog are unique here)
CatalogProduct(catalog, id) ==
    catalog[CHOOSE i \in 1..Len(catalog) : catalog[i].id = id]
OnlyValidIds(cart, catalog) ==
    \A k \in 1..Len(cart) : \E i \in 1..Len(catalog) : catalog[i].id = cart[k].id
\* catalog_price * (1 - discount/100), in thousandths of OMR
ExpectedUnit(prod) == prod.price * (100 - prod.discount)
RECURSIVE ExpectedBase(_, _)
ExpectedBase(cart, catalog) ==
    IF cart = << >> THEN 0
    ELSE ExpectedUnit(CatalogProduct(catalog, Head(cart).id)) * Head(cart).quantity
         + ExpectedBase(Tail(cart), catalog)

\* price 10.0, discount 10 %, quantity 2, rate 2.6: unit 9.0, base 18.0, settlement 46.8
C10_Example ==
    LET P1 == [id |-> "P1", name |-> "P1", price |-> 100, discount |-> 10]
        priced == PriceLoop(<< P1 >>, << [id |-> "P1", quantity |-> 2] >>, 0, << >>)
    IN /\ priced.full_items =
              << [id |-> "P1", name |-> "P1", price |-> 9000, quantity |-> 2] >>
       /\ priced.calculated_total = 18000
       /\ total_usd(priced.calculated_total) = 468000

InCatalog(catalog, id) == \E i \in 1..Len(catalog) : catalog[i].id = id
RECURSIVE KnownLines(_, _)
KnownLines(cart, catalog) ==
    IF cart = << >> THEN << >>
    ELSE IF InCatalog(catalog, Head(cart).id)
         THEN << Head(cart) >> \o KnownLines(Tail(cart), catalog)
         ELSE KnownLines(Tail(cart), catalog)

\* C11: a cart with product ids that the catalog does not have is priced without
\* an error (the request goes on to the provider), and the order stored for it
\* has exactly the lines of known products, in cart order and at the usual
\* prices; the unknown lines add nothing to either total.
C11_UnknownIdsOmitted ==
    [][\A p \in Procs :
          /\ \A items \in Carts, now \in Readings :
                 (req'[p] # req[p] /\ create_order(p, items, now)
                     /\ ~OnlyValidIds(items, load_data.products)) =>
                     /\ req'[p].pc = "co_paypal"
                     /\ last' = last
                     /\ Len(req'[p].full_items) =
                            Len(KnownLines(items, load_data.products))
          /\ (CreateReturns(p) /\ SessionCreated /\ HoldsNewOrder(p)
                 /\ ~OnlyValidIds(req[p].items, req[p].data.products)) =>
                 LET catalog == req[p].data.products
                     known == KnownLines(req[p].items, catalog)
                     o == file'.orders[Len(file'.orders)]
                 IN /\ Len(o.items) = Len(known)
                    /\ \A k \in 1..Len(known) :
                           /\ o.items[k].id = known[k].id
                           /\ o.items[k].quantity = known[k].quantity
                           /\ o.items[k].price =
                                  ExpectedUnit(CatalogProduct(catalog, known[k].id))
                    /\ o.total_omr = ExpectedBase(known, catalog)
                    /\ o.total_usd = o.total_omr * 26]_vars

\* the store holds an order of the cart of products "2" and "1" priced from a
\* catalog without product "2": the single line of product "1", and totals of
\* that line alone
C11_Witness ==
    \E i \in 1..Len(StoredOrders(file, fileOk)) :
        LET o == StoredOrders(file, fileOk)[i]
        IN /\ Len(o.items) = 1
           /\ o.items[1].id = "1"
           /\ o.items[1].quantity = 2
           /\ o.total_omr = o.items[1].price * 2
           /\ o.total_usd = o.items[1].price * 2 * 26

\* C12: a finalize request whose capture succeeds, and which so marks its order
\* confirmed and paid, has captured the session recorded on that order when it
\* was created.
C12_ConfirmsOnlyOwnSession ==
    [][\A p \in Procs :
          CaptureSucceeds(p) => LoadedOrder(p).paypal_order_id = req[p].token]_vars

\* the orders of the store before and after a step
OrdersNow == StoredOrders(file, fileOk)
OrdersNext == StoredOrders(file', fileOk')

\* C13: an order that the store holds with paid = TRUE is not held with
\* paid = FALSE after any step (the order at the same place of the list, with the
\* same id and the same session).
C13_PaidIsOneWay ==
    [][\A i \in 1..Len(OrdersNow) :
          (OrdersNow[i].paid /\ i <= Len(OrdersNext)
              /\ OrdersNext[i].id = OrdersNow[i].id
              /\ OrdersNext[i].paypal_order_id = OrdersNow[i].paypal_order_id) =>
              OrdersNext[i].paid]_vars

\* C14: no two orders of the store have the same id.
C14_OrderIdsUnique ==
    \A i, j \in 1..Len(OrdersNow) : i # j => OrdersNow[i].id # OrdersNow[j].id

\* the order that a lookup by id finds: the first of the list with this id
OrderById(orders, id) == orders[IndexOf(orders, id)]
\* the line items and the two totals of an order
Snapshot(o) == << o.items, o.total_omr, o.total_usd >>

\* C15: a step of a product or category route, of the status override, of
\* finalize or of cancel (any step in which no create_order returns) leaves the
\* line items and the two totals of every order of the store as they were.
C15_SnapshotsImmutable ==
    [][(~\E p \in Procs : CreateReturns(p)) =>
          \A id \in 1..MaxClock :
              (IndexOf(OrdersNow, id) # 0 /\ IndexOf(OrdersNext, id) # 0) =>
                  Snapshot(OrderById(OrdersNext, id)) =
                      Snapshot(OrderById(OrdersNow, id))]_vars

\* C16: every order of the store is either confirmed and paid, or
\* pending_payment and not paid.
C16_StatusAgreesWithPaid ==
    \A i \in 1..Len(OrdersNow) :
        /\ OrdersNow[i].status = "confirmed" <=> OrdersNow[i].paid
        /\ OrdersNow[i].status = "pending_payment" <=> ~OrdersNow[i].paid

\* the products that load_data reads
StoredProducts == load_data.products
UniqueIds(seq) == \A i, j \in 1..Len(seq) : i # j => seq[i].id # seq[j].id

\* C17: the products of the store have distinct ids, at the start and after every
\* step from a catalog of distinct ids; an upsert by the admin of an id that the
\* catalog has replaces that product where it stands, an upsert of a new id adds
\* it at the end, and a delete leaves no product of that id and keeps the others.
C17_ProductIdsUnique ==
    /\ UniqueIds(StoredProducts)
    /\ [][UniqueIds(StoredProducts) =>
             /\ UniqueIds(StoredProducts')
             /\ \A product \in ProductInputs :
                    save_product(ADMIN_TOKEN, product, {"ok"}) =>
                        IF InCatalog(StoredProducts, product.id)
                        THEN /\ Len(StoredProducts') = Len(StoredProducts)
                             /\ \A k \in 1..Len(StoredProducts) :
                                    StoredProducts'[k] =
                                        IF StoredProducts[k].id = product.id
                                        THEN product ELSE StoredProducts[k]
                        ELSE StoredProducts' = StoredProducts \o << product >>
             /\ \A pid \in ProductIds :
                    delete_product(ADMIN_TOKEN, pid, {"ok"}) =>
                        /\ ~InCatalog(StoredProducts', pid)
                        /\ StoredProducts' =
                               SelectSeq(StoredProducts, LAMBDA x : x.id # pid)]_vars

\* the seeded product "1" has been replaced where it stood and product "2" has
\* been added after it
C17_Witness ==
    /\ Len(StoredProducts) = 2
    /\ StoredProducts[1] = [id |-> "1", name |-> "Steak", price |-> 100, discount |-> 10]
    /\ StoredProducts[2].id = "2"

\* C18: every product of the store has a discount from 0 to 100, and every line
\* of a stored order has a unit price that is not negative.
C18_DiscountInRange ==
    /\ \A i \in 1..Len(StoredProducts) :
           StoredProducts[i].discount \in 0..100
    /\ \A i \in 1..Len(OrdersNow) :
           \A k \in 1..Len(OrdersNow[i].items) : OrdersNow[i].items[k].price >= 0

\* a request of an admin route arrives with this token
AdminRequest(t) ==
    \/ get_admin_data(t)
    \/ download_backup(t)
    \/ \E product \in ProductInputs : save_product(t, product, IoOutcomes)
    \/ \E pid \in ProductIds : delete_product(t, pid, IoOutcomes)
    \/ \E category \in CategoryInputs : save_category(t, category, IoOutcomes)
    \/ \E cid \in CategoryIds : delete_category(t, cid, IoOutcomes)
    \/ \E oid \in OrderIds, status \in StatusInputs :
           update_order_status(t, oid, status, IoOutcomes)
    \/ \E upload \in RestoreInputs : restore_backup(t, upload, IoOutcomes)

\* C19: a request of an admin route (full-data, backup, product or category
\* upsert or delete, status override, restore) with a token that is not the
\* admin token is answered 403, with no data, and leaves the store as it was.
C19_AdminGated ==
    [][\A t \in AdminTokens \ {ADMIN_TOKEN} :
          (req' = req /\ AdminRequest(t)) =>
              /\ last'.resp = "403"
              /\ file' = file
              /\ fileOk' = fileOk]_vars

\* a request has been refused for its token while the store holds an order
C19_Witness ==
    /\ last = [op |-> "verify_admin", resp |-> "403"]
    /\ Len(OrdersNow) > 0

\* C20: when create_order returns for a cart of which no line is of a product
\* of the catalog, and the provider has created the session, the store holds
\* the new pending order, with no lines and both totals zero, and the request
\* returns the approval link.
C20_EmptyOrderProceeds ==
    [][\A p \in Procs :
          (CreateReturns(p) /\ SessionCreated
              /\ KnownLines(req[p].items, req[p].data.products) = << >>) =>
              /\ HoldsNewOrder(p)
              /\ OrdersNext[Len(OrdersNext)].items = << >>
              /\ OrdersNext[Len(OrdersNext)].total_omr = 0
              /\ OrdersNext[Len(OrdersNext)].total_usd = 0
              /\ last' = [op |-> "create_order", resp |-> "approval_url"]]_vars

====
